---- MODULE Spec2Model ----
(***************************************************************************)
(* Facebook Pages extraction pipeline (facebook_pages_pipeline.py).        *)
(*                                                                         *)
(* The module models the four row streams of the pipeline and the load:    *)
(*   - add_page_fields / add_post_fields   (row enrichment transformers)   *)
(*   - flatten_daily_metrics_inner         (metric-series flattener)       *)
(*   - post_metrics_resource               (post-metrics fan-out)          *)
(*   - get_data / pipeline.run             (load with write dispositions)  *)
(*                                                                         *)
(* Encoding.  A Python dict is a TLA+ function whose DOMAIN is the set of  *)
(* keys.  Every JSON scalar is written as a string, so that None and a     *)
(* value can be compared; None is the string Null.  The inputs of the      *)
(* generators (the items of the upstream iterator, the posts of a listing, *)
(* the metric objects of a response) are drawn when the loop reaches them. *)
(***************************************************************************)
EXTENDS Integers, Sequences, FiniteSets, TLC

VARIABLES
    now,            \* the wall clock read by datetime.now(), in ticks
    \* ---- post_metrics_resource
    fpc,            \* position of the generator
    n_posts,        \* len(posts_data.get("data", []))
    post_idx,       \* number of posts the for loop has taken
    post,           \* the loop variable post
    base_record,    \* the record being built for post
    list_ok,        \* outcome of the listing request: "none", "ok", "failed"
    call_ok,        \* whether the per-post insights call returned
    n_failed,       \* per-post insights calls that raised
    metrics_left,   \* metric objects of metrics_data not yet visited
    metric,         \* the loop variable metric
    returned,       \* <<name, first value>> of the metric objects visited for post
    yielded,        \* number of records yielded
    n_list_req,     \* listing requests issued
    n_metric_req,   \* per-post insights requests issued
    \* ---- flatten_daily_metrics_inner
    dpc,            \* position of the generator
    items_taken,    \* metric_response objects taken from items
    metric_response,\* the loop variable metric_response (name, period)
    values_left,    \* value entries of metric_response not yet visited
    value_entry,    \* the loop variable value_entry
    metrics_by_date,\* date_str -> record
    date_order,     \* the keys of metrics_by_date in insertion order
    emit_idx,       \* number of records yielded
    \* ---- add_page_fields, add_post_fields
    epc,            \* position of the transformer
    item,           \* the loop variable item, as received
    enriched,       \* what the transformer yielded for item
    n_in,           \* items received
    n_out,          \* items yielded
    \* ---- the pipe
    resource,       \* the resource being evaluated
    \* ---- the flattener called twice on the same items
    items,          \* the metric_response objects handed to both calls
    pass,           \* 0: items arrive from upstream; 1, 2: the call on items
    out1,           \* the records the first call yielded
    \* ---- get_data: runs of the pipeline against the destination
    rpc,            \* position of the run
    staged,         \* rows extracted by the run, by relation
    tables,         \* rows of the destination, by relation
    last_run,       \* rows of the last run that completed, by relation
    n_runs          \* runs completed

fanVars == <<fpc, n_posts, post_idx, post, base_record, list_ok, call_ok,
             n_failed, metrics_left,
             metric, returned, yielded, n_list_req, n_metric_req>>

flatVars == <<dpc, items_taken, metric_response, values_left, value_entry,
              metrics_by_date, date_order, emit_idx>>

enrichVars == <<epc, item, enriched, n_in, n_out>>

twiceVars == <<items, pass, out1>>

runVars == <<rpc, staged, tables, last_run, n_runs>>

otherVars == <<twiceVars, runVars>>

vars == <<now, resource, fanVars, flatVars, enrichVars, otherVars>>

----------------------------------------------------------------------------
(* Bounds of the model *)

MaxNow == 1
MaxPosts == 2
MaxMetrics == 2
MaxItems == 2
MaxValues == 3
MaxIdLen == 3
MaxReplayValues == 2
MaxRuns == 2

----------------------------------------------------------------------------
(* Values *)

Null == "None"

\* datetime.now().isoformat()
IsoNow(t) == "T" \o ToString(t)

\* datetime.now().date().isoformat(): midnight passes after tick 0
Today(t) == IF t = 0 THEN "2024-03-01" ELSE "2024-03-02"

\* the readings a later datetime.now() can give
Later(t) == t..MaxNow

\* Timestamps an API response can carry in end_time / created_time
TimeStrings ==
    {"2024-01-01T08:00:00Z", "2024-01-01T23:59:59+00:00",
     "2024-01-02T08:00:00Z", "not-a-date"}

\* The created_time values of the posts of a listing
CreatedTimes == {"2024-01-02T08:00:00Z", "not-a-date", Null}

ValueError == "ValueError"

\* datetime.fromisoformat(s.replace('Z', '+00:00')).date().isoformat()
IsoDate(s) ==
    CASE s = "2024-01-01T08:00:00Z" -> "2024-01-01"
      [] s = "2024-01-01T23:59:59+00:00" -> "2024-01-01"
      [] s = "2024-01-02T08:00:00Z" -> "2024-01-02"
      [] OTHER -> ValueError

MetricValues == {"10", "20"}

----------------------------------------------------------------------------
(* post_metrics_resource *)

\* the metric names requested for each post
post_metrics ==
    {"post_impressions", "post_impressions_unique", "post_clicks",
     "post_reactions_like_total", "post_reactions_love_total",
     "post_reactions_wow_total", "post_reactions_haha_total",
     "post_reactions_sorry_total", "post_reactions_anger_total"}

\* the metric keys of base_record, all initialised to None
PostMetricsCatalog ==
    {"post_clicks", "post_engaged_fan", "post_engaged_users", "post_impressions",
     "post_impressions_fan", "post_impressions_nonviral",
     "post_impressions_organic", "post_impressions_paid",
     "post_impressions_viral", "post_negative_feedback",
     "post_reactions_anger_total", "post_reactions_haha_total",
     "post_reactions_like_total", "post_reactions_love_total",
     "post_reactions_sorry_total", "post_reactions_wow_total",
     "post_video_avg_time_watched",
     "post_video_complete_views_30_s_autoplayed",
     "post_video_complete_views_30_s_clicked_to_play",
     "post_video_complete_views_30_s_organic",
     "post_video_complete_views_30_s_paid",
     "post_video_complete_views_organic", "post_video_complete_views_paid",
     "post_video_length", "post_video_view_time",
     "post_video_view_time_organic", "post_video_views",
     "post_video_views_10_s", "post_video_views_10_s_autoplayed",
     "post_video_views_10_s_clicked_to_play", "post_video_views_10_s_organic",
     "post_video_views_10_s_paid", "post_video_views_10_s_sound_on",
     "post_video_views_15_s", "post_video_views_autoplayed",
     "post_video_views_clicked_to_play", "post_video_views_organic",
     "post_video_views_paid", "post_video_views_sound_on"}

PostIdentityKeys == {"post_id", "date", "_extracted_at"}

\* The posts a listing can hold: id always present, created_time optional
PostIds == {"111_1", "111_2"}

Posts ==
    [id : PostIds, created_time : CreatedTimes]

\* The metric objects an insights response can hold
\* Names an insights response can carry: requested and preset
\* (post_clicks), requested and not preset (post_impressions_unique),
\* preset and not requested (post_video_views), neither (post_shares),
\* and the name of an identity key (post_id)
ResponseMetricNames ==
    {"post_clicks", "post_impressions_unique", "post_video_views",
     "post_shares", "post_id"}

ResponseValues ==
    {<<>>, <<[value |-> "20"]>>, <<[value |-> "10"], [value |-> "20"]>>}

ResponseMetrics ==
    [name : ResponseMetricNames, values : ResponseValues]

NoPost == [id |-> Null, created_time |-> Null]
NoMetric == [name |-> Null, values |-> <<>>]
NoRecord == [k \in {} |-> Null]

\* Faulty variant: the try has no except, the outcome of the parse is used as
\* it is
PostDateNoFallback(p, t) ==
    IF p.created_time # Null
    THEN IsoDate(p.created_time)
    ELSE Today(t)

\* date_str of a post: the date of created_time, the current date when it
\* is missing or does not parse
PostDate(p, t) ==
    IF p.created_time # Null
    THEN IF IsoDate(p.created_time) # ValueError
         THEN IsoDate(p.created_time)
         ELSE Today(t)
    ELSE Today(t)

\* base_record as created for a post
BaseRecord(post_id, date_str, t) ==
    [k \in PostIdentityKeys \cup PostMetricsCatalog |->
        CASE k = "post_id" -> post_id
          [] k = "date" -> date_str
          [] k = "_extracted_at" -> IsoNow(t)
          [] OTHER -> Null]

\* Faulty variant: base_record is created once and only re-keyed for each post
FreshRecordStale(prev, p, t1, t2) ==
    IF prev = NoRecord
    THEN BaseRecord(p.id, PostDate(p, t1), t2)
    ELSE [prev EXCEPT !["post_id"] = p.id,
                      !["date"] = PostDate(p, t1),
                      !["_extracted_at"] = IsoNow(t2)]

\* The record the loop body starts from (prev is the record of the post
\* before, which the loop body does not read)
FreshRecord(prev, p, t1, t2) == BaseRecord(p.id, PostDate(p, t1), t2)

\* metric_values[0].get("value")
FirstValue(m) == m.values[1].value

\* One pass of the loop over metrics_data["data"]
UpdateRecord(rec, m) ==
    IF Len(m.values) > 0 /\ m.name \in DOMAIN rec
    THEN [rec EXCEPT ![m.name] = FirstValue(m)]
    ELSE rec

FanInit ==
    /\ fpc = "start"
    /\ n_posts = 0
    /\ post_idx = 0
    /\ post = NoPost
    /\ base_record = NoRecord
    /\ list_ok = "none"
    /\ call_ok = FALSE
    /\ n_failed = 0
    /\ metrics_left = 0
    /\ metric = NoMetric
    /\ returned = {}
    /\ yielded = 0
    /\ n_list_req = 0
    /\ n_metric_req = 0

\* Faulty variant: the failure of the listing is swallowed and the loop runs on an
\* empty listing
ListingFailedSwallowed ==
    /\ fpc' = "loop"
    /\ n_posts' = 0

\* What the generator does when the listing request fails: nothing catches
\* the exception of requests.get / raise_for_status
ListingFailed ==
    /\ fpc' = "raised"
    /\ n_posts' = n_posts

\* requests.get(posts_url); raise_for_status(); json()
ListPosts ==
    /\ resource = "lifetime_post_metrics_total"
    /\ fpc = "start"
    /\ n_list_req' = n_list_req + 1
    /\ \/ /\ list_ok' = "failed"
          /\ ListingFailed
       \/ \E n \in 0..MaxPosts :
            /\ list_ok' = "ok"
            /\ n_posts' = n
            /\ fpc' = "loop"
    /\ \E t \in Later(now) : now' = t
    /\ UNCHANGED <<post_idx, post, base_record, call_ok, n_failed, metrics_left,
                   metric, returned, yielded, n_metric_req>>
    /\ UNCHANGED <<otherVars, resource, flatVars, enrichVars>>

\* for post in posts_data.get("data", []): date_str and base_record
NextPost ==
    /\ resource = "lifetime_post_metrics_total"
    /\ fpc = "loop"
    /\ post_idx < n_posts
    /\ \E p \in Posts, t1 \in Later(now) : \E t2 \in Later(t1) :
         /\ post' = p
         /\ base_record' = FreshRecord(base_record, p, t1, t2)
         /\ now' = t2
    /\ post_idx' = post_idx + 1
    /\ call_ok' = FALSE
    /\ metrics_left' = 0
    /\ metric' = NoMetric
    /\ returned' = {}
    /\ fpc' = "fetch"
    /\ UNCHANGED <<n_posts, list_ok, n_failed, yielded, n_list_req,
                   n_metric_req>>
    /\ UNCHANGED <<otherVars, resource, flatVars, enrichVars>>

\* Faulty variant: the handler issues the request of the post again
MetricsFailedRetries ==
    /\ fpc' = "fetch"
    /\ metrics_left' = 0

\* Faulty variant: the handler goes on to the next post without yielding
MetricsFailedSkipsPost ==
    /\ fpc' = "loop"
    /\ metrics_left' = 0

\* except requests.RequestException: print and go on to the yield
MetricsFailed ==
    /\ fpc' = "yield"
    /\ metrics_left' = 0

\* requests.get(url); raise_for_status(); json()
FetchMetrics ==
    /\ resource = "lifetime_post_metrics_total"
    /\ fpc = "fetch"
    /\ n_metric_req' = n_metric_req + 1
    /\ \/ /\ call_ok' = FALSE
          /\ n_failed' = n_failed + 1
          /\ MetricsFailed
       \/ \E n \in 0..MaxMetrics :
            /\ call_ok' = TRUE
            /\ n_failed' = n_failed
            /\ metrics_left' = n
            /\ fpc' = IF n = 0 THEN "yield" ELSE "apply"
    /\ UNCHANGED <<now, n_posts, post_idx, post, base_record, list_ok, metric,
                   returned, yielded, n_list_req>>
    /\ UNCHANGED <<otherVars, resource, flatVars, enrichVars>>

\* for metric in metrics_data.get("data", [])
ApplyMetric ==
    /\ resource = "lifetime_post_metrics_total"
    /\ fpc = "apply"
    /\ metrics_left > 0
    /\ \E m \in ResponseMetrics :
         /\ metric' = m
         /\ base_record' = UpdateRecord(base_record, m)
         /\ returned' = IF Len(m.values) > 0
                        THEN returned \cup {<<m.name, m.values[1].value>>}
                        ELSE returned
    /\ metrics_left' = metrics_left - 1
    /\ fpc' = IF metrics_left = 1 THEN "yield" ELSE "apply"
    /\ UNCHANGED <<now, n_posts, post_idx, post, list_ok, call_ok, n_failed,
                   yielded, n_list_req, n_metric_req>>
    /\ UNCHANGED <<otherVars, resource, flatVars, enrichVars>>

\* yield base_record
YieldRecord ==
    /\ resource = "lifetime_post_metrics_total"
    /\ fpc = "yield"
    /\ yielded' = yielded + 1
    /\ fpc' = "loop"
    /\ UNCHANGED <<now, n_posts, post_idx, post, base_record, list_ok, call_ok,
                   n_failed, metrics_left, metric, returned, n_list_req,
                   n_metric_req>>
    /\ UNCHANGED <<otherVars, resource, flatVars, enrichVars>>

\* the for loop is exhausted
FinishPosts ==
    /\ resource = "lifetime_post_metrics_total"
    /\ fpc = "loop"
    /\ post_idx = n_posts
    /\ fpc' = "done"
    /\ UNCHANGED <<now, n_posts, post_idx, post, base_record, list_ok, call_ok,
                   n_failed, metrics_left, metric, returned, yielded,
                   n_list_req, n_metric_req>>
    /\ UNCHANGED <<otherVars, resource, flatVars, enrichVars>>

----------------------------------------------------------------------------
(* flatten_daily_metrics_inner *)

\* facebook_page_id as captured by daily_metrics_with_page_id
PageId == "111"

\* the keys of missing_metrics
DailyMetricsCatalog ==
    {"page_negative_feedback", "page_impressions_organic",
     "page_fans_online_per_day", "page_places_checkin_total",
     "page_video_complete_views_30_s",
     "page_video_complete_views_30_s_autoplayed",
     "page_video_complete_views_30_s_click_to_play",
     "page_video_complete_views_30_s_organic",
     "page_video_complete_views_30_s_paid",
     "page_video_complete_views_30_s_repeat_views",
     "page_video_repeat_views", "page_video_view_time",
     "page_video_views_10_s", "page_video_views_10_s_autoplayed",
     "page_video_views_10_s_click_to_play", "page_video_views_10_s_organic",
     "page_video_views_10_s_paid", "page_video_views_10_s_repeat",
     "page_video_views_autoplayed", "page_video_views_click_to_play",
     "page_video_views_organic", "page_video_views_paid"}

DailyIdentityKeys == {"page_id", "date", "_extracted_at"}

\* Names a page insights object can carry: a requested metric that is not in
\* missing_metrics (page_fans) and a metric of missing_metrics
DailyMetricNames == {"page_fans", "page_video_views_paid"}

\* period of a page insights object; Null when the key is absent
Periods == {"day", "week", Null}

\* The head of a metric_response object: its name, its period and the
\* length of its values list (0 when values is absent or empty)
MetricHeads == [name : DailyMetricNames, period : Periods]

\* end_time of a value entry; Null when the key is absent
EndTimes == TimeStrings \cup {Null}

ValueEntries == [end_time : EndTimes, value : MetricValues]

NoHead == [name |-> Null, period |-> Null]
NoEntry == [end_time |-> Null, value |-> Null]
NoDates == [d \in {} |-> NoRecord]

\* d[k] = v
SetKey(d, k, v) ==
    [x \in DOMAIN d \cup {k} |-> IF x = k THEN v ELSE d[x]]

\* metric_response.get("period", "day")
PeriodOf(head) == IF head.period = Null THEN "day" ELSE head.period

\* Faulty variant: the period is not tested
RetainedAnyPeriod(head, n_values) == n_values > 0

\* if period == "day" and values
Retained(head, n_values) == PeriodOf(head) = "day" /\ n_values > 0

\* the entry created for a date seen for the first time
NewDateEntry(date_str, t) ==
    [k \in DailyIdentityKeys |->
        CASE k = "page_id" -> PageId
          [] k = "date" -> date_str
          [] OTHER -> IsoNow(t)]

\* Faulty variant: the entry of the date is initialised on every value entry
DateEntryAlwaysNew(by_date, date_str, t) == NewDateEntry(date_str, t)

\* if date_str not in metrics_by_date: the entry of the date, initialised
\* when the date is seen for the first time
DateEntry(by_date, date_str, t) ==
    IF date_str \in DOMAIN by_date
    THEN by_date[date_str]
    ELSE NewDateEntry(date_str, t)

\* Faulty variant: a metric the entry of the date already has keeps its value
\* (setdefault)
PutMetricKeepsFirst(by_date, date_str, metric_name, value, t) ==
    LET entry == DateEntry(by_date, date_str, t)
    IN  IF metric_name \in DOMAIN entry
        THEN SetKey(by_date, date_str, entry)
        ELSE SetKey(by_date, date_str, SetKey(entry, metric_name, value))

\* metrics_by_date after the body of the inner loop for a parsed date
PutMetric(by_date, date_str, metric_name, value, t) ==
    LET entry == DateEntry(by_date, date_str, t)
    IN  SetKey(by_date, date_str, SetKey(entry, metric_name, value))

\* Faulty variant: the ValueError of fromisoformat is not caught
BadEndTimeRaises(next_pc) == "raised"

\* except: continue -- where control goes when end_time does not parse
BadEndTime(next_pc) == next_pc

\* Faulty variant: missing_metrics is written over the record (metrics.update)
AddMissingOverwrites(metrics) ==
    [k \in DOMAIN metrics \cup DailyMetricsCatalog |->
        IF k \in DailyMetricsCatalog THEN Null ELSE metrics[k]]

\* the record yielded for a date: missing_metrics added where absent
AddMissing(metrics) ==
    [k \in DOMAIN metrics \cup DailyMetricsCatalog |->
        IF k \in DOMAIN metrics THEN metrics[k] ELSE Null]

FlatInit ==
    /\ dpc = "items"
    /\ items_taken = 0
    /\ metric_response = NoHead
    /\ values_left = 0
    /\ value_entry = NoEntry
    /\ metrics_by_date = NoDates
    /\ date_order = <<>>
    /\ emit_idx = 0

\* for metric_response in items: one more object arrives
TakeItem(head, n_values) ==
    /\ dpc = "items"
    /\ items_taken' = items_taken + 1
    /\ metric_response' = head
    /\ values_left' = IF Retained(head, n_values) THEN n_values ELSE 0
    /\ dpc' = IF Retained(head, n_values) THEN "values" ELSE "items"
    /\ UNCHANGED <<now, value_entry, metrics_by_date, date_order, emit_idx>>

\* Faulty variant: a date that does not parse falls back to the current date, as
\* the date of a post does
EntryDateOrToday(end_time, t) ==
    IF IsoDate(end_time) = ValueError THEN Today(t) ELSE IsoDate(end_time)

\* date_str of a value entry, or ValueError; t is the time of the pass,
\* which the try block does not read
EntryDate(end_time, t) == IsoDate(end_time)

\* for value_entry in values: the body of the inner loop
TakeValue(entry) ==
    /\ dpc = "values"
    /\ values_left > 0
    /\ value_entry' = entry
    /\ values_left' = values_left - 1
    /\ LET next_pc == IF values_left = 1 THEN "items" ELSE "values"
       IN  IF entry.end_time = Null
           THEN /\ dpc' = next_pc
                /\ UNCHANGED <<now, metrics_by_date, date_order>>
           ELSE \E t \in Later(now) :
                  LET date_str == EntryDate(entry.end_time, t)
                  IN  IF date_str = ValueError
                      THEN /\ dpc' = BadEndTime(next_pc)
                           /\ UNCHANGED <<now, metrics_by_date, date_order>>
                      ELSE /\ dpc' = next_pc
                           /\ now' = IF date_str \in DOMAIN metrics_by_date
                                     THEN now ELSE t
                           /\ metrics_by_date' =
                                  PutMetric(metrics_by_date, date_str,
                                            metric_response.name, entry.value, t)
                           /\ date_order' =
                                  IF date_str \in DOMAIN metrics_by_date
                                  THEN date_order
                                  ELSE Append(date_order, date_str)
    /\ UNCHANGED <<items_taken, metric_response, emit_idx>>

\* Whether the iterator items has nothing more to give: at any point when
\* the items arrive from upstream, at the end of items when they are given
Exhausted == pass = 0 \/ items_taken = Len(items)

\* items is exhausted
EndItems ==
    /\ resource = "daily_page_metrics_total"
    /\ dpc = "items"
    /\ Exhausted
    /\ dpc' = IF date_order = <<>> THEN "done" ELSE "emit"
    /\ UNCHANGED <<now, items_taken, metric_response, values_left, value_entry,
                   metrics_by_date, date_order, emit_idx>>
    /\ UNCHANGED <<otherVars, resource, fanVars, enrichVars>>

\* for date_str, metrics in metrics_by_date.items(): fill and yield
EmitRecord ==
    /\ resource = "daily_page_metrics_total"
    /\ dpc = "emit"
    /\ emit_idx < Len(date_order)
    /\ LET date_str == date_order[emit_idx + 1]
       IN  metrics_by_date' =
               [metrics_by_date EXCEPT ![date_str] = AddMissing(@)]
    /\ emit_idx' = emit_idx + 1
    /\ dpc' = IF emit_idx + 1 = Len(date_order) THEN "done" ELSE "emit"
    /\ UNCHANGED <<now, items_taken, metric_response, values_left, value_entry,
                   date_order>>
    /\ UNCHANGED <<otherVars, resource, fanVars, enrichVars>>

\* the upstream resource hands over its next item
NextItem ==
    /\ resource = "daily_page_metrics_total"
    /\ pass = 0
    /\ items_taken < MaxItems
    /\ \E head \in MetricHeads, n \in 0..MaxValues : TakeItem(head, n)
    /\ UNCHANGED <<otherVars, resource, fanVars, enrichVars>>

\* the values list hands over its next entry
NextValue ==
    /\ resource = "daily_page_metrics_total"
    /\ pass = 0
    /\ \E entry \in ValueEntries : TakeValue(entry)
    /\ UNCHANGED <<otherVars, resource, fanVars, enrichVars>>

----------------------------------------------------------------------------
(* add_page_fields, add_post_fields *)

\* Identifiers are sequences of characters here, so that they can be split
IdChars == {"1", "2", "_"}

RECURSIVE StringsUpTo(_)
StringsUpTo(n) ==
    IF n = 0
    THEN {<<>>}
    ELSE LET shorter == StringsUpTo(n - 1)
         IN  shorter \cup {Append(s, c) : s \in shorter, c \in IdChars}

IdStrings ==
    StringsUpTo(MaxIdLen)
        \cup {<<"1", "2", "3", "4", "5", "6", "_", "7", "8", "9">>,
              <<"n", "o", "p", "a", "g", "e", "s", "e", "p">>}

\* Raw items of the page endpoint and of the posts endpoint; the id key can
\* be absent
PageItems ==
    {[id |-> <<"1", "1", "1">>, name |-> "Page"], [name |-> "Page"]}

PostItems ==
    {[id |-> s, message |-> "hello"] : s \in IdStrings}
        \cup {[message |-> "hello"]}

NoItem == [k \in {} |-> Null]

\* item.get("id", "")
GetId(it) == IF "id" \in DOMAIN it THEN it.id ELSE <<>>

\* "_" in post_id
HasSeparator(s) == \E i \in 1..Len(s) : s[i] = "_"

\* s.split("_"): the parts of s between the separators
RECURSIVE Split(_, _)
Split(s, part) ==
    IF s = <<>>
    THEN <<part>>
    ELSE IF Head(s) = "_"
         THEN <<part>> \o Split(Tail(s), <<>>)
         ELSE Split(Tail(s), Append(part, Head(s)))

\* Faulty variant: the timestamp is set inside the if, with page_id
add_page_fields_stamp_with_id(it, t) ==
    IF "id" \in DOMAIN it
    THEN <<SetKey(SetKey(it, "page_id", it.id), "_extracted_at", IsoNow(t))>>
    ELSE <<it>>

\* for item in items: ... yield item (page)
add_page_fields(it, t) ==
    LET with_id == IF "id" \in DOMAIN it
                   THEN SetKey(it, "page_id", it.id)
                   ELSE it
    IN  <<SetKey(with_id, "_extracted_at", IsoNow(t))>>

\* Faulty variant: the last part of the split is taken, not the first
add_post_fields_last_part(it, t) ==
    LET post_id == GetId(it)
        parts == Split(post_id, <<>>)
        with_id == IF HasSeparator(post_id)
                   THEN SetKey(it, "page_id", parts[Len(parts)])
                   ELSE it
    IN  <<SetKey(with_id, "_extracted_at", IsoNow(t))>>

\* for item in items: ... yield item (post_history)
add_post_fields(it, t) ==
    LET post_id == GetId(it)
        with_id == IF HasSeparator(post_id)
                   THEN SetKey(it, "page_id", Split(post_id, <<>>)[1])
                   ELSE it
    IN  <<SetKey(with_id, "_extracted_at", IsoNow(t))>>

EnrichInit ==
    /\ epc = "items"
    /\ item = NoItem
    /\ enriched = <<>>
    /\ n_in = 0
    /\ n_out = 0

\* one item goes through add_page_fields
EnrichPage ==
    /\ resource = "page"
    /\ epc = "items"
    /\ n_in < MaxItems
    /\ \E it \in PageItems, t \in Later(now) :
         /\ item' = it
         /\ enriched' = add_page_fields(it, t)
         /\ n_out' = n_out + Len(add_page_fields(it, t))
         /\ now' = t
    /\ n_in' = n_in + 1
    /\ UNCHANGED epc
    /\ UNCHANGED <<otherVars, resource, fanVars, flatVars>>

\* one item goes through add_post_fields
EnrichPost ==
    /\ resource = "post_history"
    /\ epc = "items"
    /\ n_in < MaxItems
    /\ \E it \in PostItems, t \in Later(now) :
         /\ item' = it
         /\ enriched' = add_post_fields(it, t)
         /\ n_out' = n_out + Len(add_post_fields(it, t))
         /\ now' = t
    /\ n_in' = n_in + 1
    /\ UNCHANGED epc
    /\ UNCHANGED <<otherVars, resource, fanVars, flatVars>>

\* items is exhausted
EndEnrich ==
    /\ resource \in {"page", "post_history"}
    /\ epc = "items"
    /\ epc' = "done"
    /\ UNCHANGED <<now, item, enriched, n_in, n_out>>
    /\ UNCHANGED <<otherVars, resource, fanVars, flatVars>>

----------------------------------------------------------------------------
(* The resources of facebook_pages_source, each evaluated by the pipe *)

Resources ==
    {"page", "post_history", "daily_page_metrics_total",
     "lifetime_post_metrics_total"}

NoRows == [r \in Resources |-> {}]

\* Nothing is given to the flattener ahead of time
TwiceIdle ==
    /\ items = <<>>
    /\ pass = 0
    /\ out1 = {}

\* No run has been started
RunInit ==
    /\ rpc = "idle"
    /\ staged = NoRows
    /\ tables = NoRows
    /\ last_run = NoRows
    /\ n_runs = 0

Init ==
    /\ now = 0
    /\ resource \in Resources
    /\ FanInit
    /\ FlatInit
    /\ EnrichInit
    /\ TwiceIdle
    /\ RunInit

Next ==
    \/ EnrichPage
    \/ EnrichPost
    \/ EndEnrich
    \/ NextItem
    \/ NextValue
    \/ EndItems
    \/ EmitRecord
    \/ ListPosts
    \/ NextPost
    \/ FetchMetrics
    \/ ApplyMetric
    \/ YieldRecord
    \/ FinishPosts

Spec == Init /\ [][Next]_vars

----------------------------------------------------------------------------
(* flatten_daily_metrics_inner called twice on the same items *)

ReplayEntries ==
    [end_time : {"2024-01-01T08:00:00Z", "2024-01-02T08:00:00Z", "not-a-date"},
     value : MetricValues]

RECURSIVE EntriesUpTo(_)
EntriesUpTo(n) ==
    IF n = 0
    THEN {<<>>}
    ELSE LET shorter == EntriesUpTo(n - 1)
         IN  shorter \cup {Append(s, e) : s \in shorter, e \in ReplayEntries}

\* Names of the objects given to the two calls: those of DailyMetricNames
\* and the name of an identity key of the record of a date
ReplayMetricNames == DailyMetricNames \cup {"date"}

\* metric_response objects with at most n value entries
ReplayObjects(n) ==
    [name : ReplayMetricNames, period : {"day", "week"}, values : EntriesUpTo(n)]

\* The inputs of the two calls: no object, one object, or two objects of at
\* most one value entry each
ReplayItems ==
    {<<>>} \cup {<<o>> : o \in ReplayObjects(MaxReplayValues)}
           \cup {<<a, b>> : a \in ReplayObjects(1), b \in ReplayObjects(1)}

InitTwice ==
    /\ now = 0
    /\ resource = "daily_page_metrics_total"
    /\ FanInit
    /\ FlatInit
    /\ EnrichInit
    /\ RunInit
    /\ items \in ReplayItems
    /\ pass = 1
    /\ out1 = {}

\* for metric_response in items, items given
ReplayItem ==
    /\ resource = "daily_page_metrics_total"
    /\ pass > 0
    /\ items_taken < Len(items)
    /\ LET o == items[items_taken + 1]
       IN  TakeItem([name |-> o.name, period |-> o.period], Len(o.values))
    /\ UNCHANGED <<otherVars, resource, fanVars, enrichVars>>

\* for value_entry in values, items given
ReplayValue ==
    /\ resource = "daily_page_metrics_total"
    /\ pass > 0
    /\ dpc = "values"
    /\ LET values == items[items_taken].values
       IN  TakeValue(values[Len(values) - values_left + 1])
    /\ UNCHANGED <<otherVars, resource, fanVars, enrichVars>>

\* The first call is exhausted; the flattener is called again on items
SecondCall ==
    /\ resource = "daily_page_metrics_total"
    /\ pass = 1
    /\ dpc = "done"
    /\ out1' = {metrics_by_date[date_order[i]] : i \in 1..emit_idx}
    /\ pass' = 2
    /\ dpc' = "items"
    /\ items_taken' = 0
    /\ metric_response' = NoHead
    /\ values_left' = 0
    /\ value_entry' = NoEntry
    /\ metrics_by_date' = NoDates
    /\ date_order' = <<>>
    /\ emit_idx' = 0
    /\ UNCHANGED <<now, items, runVars, resource, fanVars, enrichVars>>

NextTwice ==
    \/ ReplayItem
    \/ ReplayValue
    \/ EndItems
    \/ EmitRecord
    \/ SecondCall

SpecTwice == InitTwice /\ [][NextTwice]_vars

----------------------------------------------------------------------------
(* get_data: runs of the pipeline against the destination *)

\* Faulty variant: the decorator of post_metrics_resource gives no write disposition
\* and the relation gets the default of the loader
WriteDispositionDefault(r) ==
    CASE r = "page" -> "replace"
      [] r = "post_history" -> "replace"
      [] r = "daily_page_metrics_total" -> "replace"
      [] r = "lifetime_post_metrics_total" -> "append"

\* The write disposition the source gives each relation
WriteDisposition(r) ==
    CASE r = "page" -> "replace"
      [] r = "post_history" -> "replace"
      [] r = "daily_page_metrics_total" -> "replace"
      [] r = "lifetime_post_metrics_total" -> "replace"

\* The rows of a relation after a load of rows under a disposition
Written(disposition, old, rows) ==
    IF disposition = "replace" THEN rows ELSE old \cup rows

\* The rows of a sequence of yields
RowsOf(yields) == {yields[i] : i \in 1..Len(yields)}

\* What the endpoints answer during a run
RunPostItems ==
    {[id |-> <<"1", "_", "1">>, message |-> "hello"],
     [id |-> <<"1", "_", "2">>, message |-> "hello"]}

RunEntries ==
    [end_time : {"2024-01-01T08:00:00Z"}, value : MetricValues]

RunPosts == [id : {"111_1"}, created_time : {"2024-01-02T08:00:00Z"}]

RunMetrics == [name : {"post_clicks"}, values : {<<[value |-> "20"]>>}]

\* pipeline.run(facebook_pages_source()) starts; the run reads the clock
StartRun ==
    /\ rpc = "idle"
    /\ now < MaxRuns
    /\ now' = now + 1
    /\ rpc' = "page"
    /\ staged' = NoRows
    /\ UNCHANGED <<tables, last_run, n_runs>>
    /\ UNCHANGED <<twiceVars, resource, fanVars, flatVars, enrichVars>>

\* resource page | add_page_fields
ExtractPage ==
    /\ rpc = "page"
    /\ \E it \in PageItems :
         staged' = [staged EXCEPT !["page"] = RowsOf(add_page_fields(it, now))]
    /\ rpc' = "post_history"
    /\ UNCHANGED <<now, tables, last_run, n_runs>>
    /\ UNCHANGED <<twiceVars, resource, fanVars, flatVars, enrichVars>>

\* resource post_history | add_post_fields
ExtractPosts ==
    /\ rpc = "post_history"
    /\ \/ staged' = [staged EXCEPT !["post_history"] = {}]
       \/ \E it \in RunPostItems :
            staged' = [staged EXCEPT !["post_history"] =
                                         RowsOf(add_post_fields(it, now))]
    /\ rpc' = "daily_page_metrics_total"
    /\ UNCHANGED <<now, tables, last_run, n_runs>>
    /\ UNCHANGED <<twiceVars, resource, fanVars, flatVars, enrichVars>>

\* resource daily_page_metrics_total | flatten_daily_metrics_inner, for a
\* response of at most one object with one value entry
ExtractDaily ==
    /\ rpc = "daily_page_metrics_total"
    /\ \/ staged' = [staged EXCEPT !["daily_page_metrics_total"] = {}]
       \/ \E head \in MetricHeads, e \in RunEntries :
            LET date_str == EntryDate(e.end_time, now)
                by_date == PutMetric(NoDates, date_str, head.name, e.value, now)
            IN  staged' = [staged EXCEPT !["daily_page_metrics_total"] =
                              IF Retained(head, 1)
                              THEN {AddMissing(by_date[date_str])}
                              ELSE {}]
    /\ rpc' = "lifetime_post_metrics_total"
    /\ UNCHANGED <<now, tables, last_run, n_runs>>
    /\ UNCHANGED <<twiceVars, resource, fanVars, flatVars, enrichVars>>

\* post_metrics_resource, for a listing of at most one post
ExtractPostMetrics ==
    /\ rpc = "lifetime_post_metrics_total"
    /\ \/ staged' = [staged EXCEPT !["lifetime_post_metrics_total"] = {}]
       \/ \E p \in RunPosts :
            staged' = [staged EXCEPT !["lifetime_post_metrics_total"] =
                          {FreshRecord(NoRecord, p, now, now)}]
       \/ \E p \in RunPosts, m \in RunMetrics :
            staged' = [staged EXCEPT !["lifetime_post_metrics_total"] =
                          {UpdateRecord(FreshRecord(NoRecord, p, now, now), m)}]
    /\ rpc' = "load"
    /\ UNCHANGED <<now, tables, last_run, n_runs>>
    /\ UNCHANGED <<twiceVars, resource, fanVars, flatVars, enrichVars>>

\* A request of a resource raises and the exception leaves pipeline.run:
\* nothing is loaded
AbortRun ==
    /\ rpc \in Resources
    /\ rpc' = "idle"
    /\ staged' = NoRows
    /\ UNCHANGED <<now, tables, last_run, n_runs>>
    /\ UNCHANGED <<twiceVars, resource, fanVars, flatVars, enrichVars>>

\* The load of the run: every relation is written under its disposition
Load ==
    /\ rpc = "load"
    /\ tables' = [r \in Resources |->
                     Written(WriteDisposition(r), tables[r], staged[r])]
    /\ last_run' = staged
    /\ n_runs' = n_runs + 1
    /\ staged' = NoRows
    /\ rpc' = "idle"
    /\ UNCHANGED now
    /\ UNCHANGED <<twiceVars, resource, fanVars, flatVars, enrichVars>>

InitRuns ==
    /\ now = 0
    /\ resource = "page"
    /\ FanInit
    /\ FlatInit
    /\ EnrichInit
    /\ TwiceIdle
    /\ RunInit

NextRuns ==
    \/ StartRun
    \/ ExtractPage
    \/ ExtractPosts
    \/ ExtractDaily
    \/ ExtractPostMetrics
    \/ AbortRun
    \/ Load

SpecRuns == InitRuns /\ [][NextRuns]_vars

----------------------------------------------------------------------------
(* Properties of post_metrics_resource *)

FanOut == resource = "lifetime_post_metrics_total"

\* C1: the fan-out yields exactly one record per post of the listing,
\* whatever the outcomes of the per-post insights calls: when the generator
\* is exhausted the number of records yielded is the number of posts listed,
\* and between posts it is the number of posts taken so far.
C1_OneRecordPerPost ==
    FanOut =>
        /\ fpc = "done" => yielded = n_posts
        /\ fpc = "loop" => yielded = post_idx
        /\ fpc \in {"fetch", "apply", "yield"} => yielded = post_idx - 1
        /\ list_ok = "ok" => fpc # "raised"

\* C1 witness: a run in which every per-post call failed, and every post of
\* a listing of two or more still got its record
C1_Witness ==
    /\ FanOut
    /\ fpc = "done"
    /\ n_posts >= 2
    /\ n_failed = n_posts
    /\ yielded = n_posts

\* The value a column of the record of post has, given the metric objects
\* the response of its own insights call carried
FromOwnResponse(m) ==
    IF \E v \in MetricValues : <<m, v>> \in returned
    THEN <<m, base_record[m]>> \in returned
    ELSE base_record[m] = Null

\* C2: when the insights call of a post raises, the record of that post has
\* post_id, date and _extracted_at set and every metric column null; the
\* record of every other post carries what its own response returned,
\* whether or not calls of other posts have failed.
C2_FailureIsolation ==
    (FanOut /\ fpc = "yield") =>
        IF ~call_ok
        THEN /\ base_record["post_id"] = post.id
             /\ \E t \in 0..MaxNow : base_record["date"] = PostDate(post, t)
             /\ \E t \in 0..MaxNow : base_record["_extracted_at"] = IsoNow(t)
             /\ \A m \in PostMetricsCatalog : base_record[m] = Null
        ELSE \A m \in PostMetricsCatalog : FromOwnResponse(m)

\* C2 witness: after the call of one post has failed, and after a post
\* before received a value, the record of a post whose call failed is ready
\* to be yielded
C2_Witness ==
    /\ FanOut
    /\ fpc = "yield"
    /\ ~call_ok
    /\ post_idx = 2
    /\ n_failed = 1
    /\ base_record["post_clicks"] = Null

\* C8: when the listing request fails the exception leaves the generator:
\* it stops there, no record is yielded and no per-post request is issued.
C8_ListingFailureAborts ==
    (FanOut /\ list_ok = "failed") =>
        /\ fpc = "raised"
        /\ yielded = 0
        /\ n_metric_req = 0
        /\ post_idx = 0

\* C8 witness: the listing request was issued and failed
C8_Witness ==
    /\ FanOut
    /\ list_ok = "failed"
    /\ n_list_req = 1
    /\ fpc = "raised"

\* C10: each of the nine requested metric names is a column of the record,
\* so that the value a successful call returned for it is stored: after the
\* loop body has visited a metric object with a requested name and a value,
\* the record holds that value under that name.
C10_RequestedMetricsStored ==
    (FanOut /\ fpc \in {"apply", "yield"} /\ call_ok /\ metric # NoMetric
        /\ metric.name \in post_metrics /\ Len(metric.values) > 0) =>
        /\ metric.name \in DOMAIN base_record
        /\ base_record[metric.name] = metric.values[1].value

----------------------------------------------------------------------------
(* Properties of flatten_daily_metrics_inner and of the transformers *)

Daily == resource = "daily_page_metrics_total"

\* The records the flattener has yielded so far
DailyYielded == {metrics_by_date[date_order[i]] : i \in 1..emit_idx}

\* The yield of the flattener keeps every key the record of the date had,
\* with its value, and adds only keys of missing_metrics, as null
BackfillKeepsFound ==
    (Daily /\ emit_idx' = emit_idx + 1) =>
        LET d == date_order[emit_idx']
            before == metrics_by_date[d]
            after == metrics_by_date'[d]
        IN  \A k \in DOMAIN after :
                IF k \in DOMAIN before
                THEN after[k] = before[k]
                ELSE k \in DailyMetricsCatalog /\ after[k] = Null

\* Every record ready to be yielded by the fan-out has every column of the
\* post catalog: null when the response returned no value under that name,
\* a value the response returned under that name otherwise
PostCatalogComplete ==
    (FanOut /\ fpc = "yield") =>
        /\ PostMetricsCatalog \subseteq DOMAIN base_record
        /\ \A m \in PostMetricsCatalog : FromOwnResponse(m)

\* Every record yielded by the flattener has every column of the daily catalog
DailyCatalogComplete ==
    Daily => \A r \in DailyYielded : DailyMetricsCatalog \subseteq DOMAIN r

\* C3: every record of daily_page_metrics_total and of
\* lifetime_post_metrics_total has every metric of its catalog as a column,
\* null when the metric was not returned for the date / post and the
\* returned value otherwise; the null backfill never replaces a value found.
C3_CatalogComplete ==
    /\ [](PostCatalogComplete /\ DailyCatalogComplete)
    /\ [][BackfillKeepsFound]_vars

\* C3 witness: a daily record has been yielded that holds a value found for
\* a metric of missing_metrics, and null for another metric of it
C3_Witness ==
    /\ Daily
    /\ emit_idx >= 1
    /\ \E r \in DailyYielded :
         /\ r["page_video_views_paid"] \in MetricValues
         /\ r["page_negative_feedback"] = Null

PostHistory == resource = "post_history"

\* the part of s before its first "_"
BeforeFirstSeparator(s) ==
    LET first == CHOOSE i \in 1..Len(s) :
                    s[i] = "_" /\ \A j \in 1..(i - 1) : s[j] # "_"
    IN  SubSeq(s, 1, first - 1)

\* C4: add_post_fields sets page_id to the part of the id before the first
\* "_" when the id has a "_", adds no page_id otherwise, and yields every
\* item it receives exactly once, with the keys it came with.
C4_PageIdFromPostId ==
    (PostHistory /\ n_in > 0) =>
        /\ n_out = n_in
        /\ Len(enriched) = 1
        /\ LET id == IF "id" \in DOMAIN item THEN item.id ELSE <<>>
               out == enriched[1]
           IN  /\ \A k \in DOMAIN item : k \in DOMAIN out /\ out[k] = item[k]
               /\ IF \E i \in 1..Len(id) : id[i] = "_"
                  THEN /\ "page_id" \in DOMAIN out
                       /\ out.page_id = BeforeFirstSeparator(id)
                  ELSE "page_id" \notin DOMAIN out
               /\ id = <<"1", "2", "3", "4", "5", "6", "_", "7", "8", "9">>
                    => out.page_id = <<"1", "2", "3", "4", "5", "6">>

\* C4 witness: the post "123456_789" went through and got page_id "123456"
C4_Witness ==
    /\ PostHistory
    /\ n_in > 0
    /\ "id" \in DOMAIN item
    /\ item.id = <<"1", "2", "3", "4", "5", "6", "_", "7", "8", "9">>
    /\ enriched[1].page_id = <<"1", "2", "3", "4", "5", "6">>

\* One pass of the inner loop of the flattener has just run
ValueStep == Daily /\ values_left' = values_left - 1

\* C5: a value entry whose end_time does not parse is dropped without
\* raising, the loop goes on to the entries after it, and every entry whose
\* end_time parses puts its value in the record of its date, whatever the
\* entries around it were.
C5_BadEndTimeDropped ==
    [][ValueStep =>
          /\ dpc' # "raised"
          /\ dpc' = IF values_left' > 0 THEN "values" ELSE "items"
          /\ LET e == value_entry'
             IN  IF e.end_time # Null /\ IsoDate(e.end_time) # ValueError
                 THEN /\ IsoDate(e.end_time) \in DOMAIN metrics_by_date'
                      /\ metrics_by_date'[IsoDate(e.end_time)]
                             [metric_response.name] = e.value
                 ELSE metrics_by_date' = metrics_by_date]_vars

\* C5 witness: in the first object, an entry contributed, the entry after it
\* had end_time "not-a-date" and was dropped, and the loop is about to take
\* the entry after that one
C5_Witness ==
    /\ Daily
    /\ items_taken = 1
    /\ dpc = "values"
    /\ values_left > 0
    /\ value_entry.end_time = "not-a-date"
    /\ DOMAIN metrics_by_date # {}

----------------------------------------------------------------------------
(* Properties of the two calls of the flattener and of the runs *)

BothCallsDone == pass = 2 /\ dpc = "done"

\* The records the second call yielded
Out2 == {metrics_by_date[date_order[i]] : i \in 1..emit_idx}

\* A record without its _extracted_at
WithoutStamp(r) == [k \in DOMAIN r \ {"_extracted_at"} |-> r[k]]

\* C6 as stated: the two calls of the flattener on the same items yield the
\* same set of per-date records.
C6_SameRecordsTwice ==
    BothCallsDone => Out2 = out1

\* The two calls yielded the same records, _extracted_at left aside (two
\* records of a call can differ in nothing but _extracted_at, when a metric
\* named date gave both dates the same date column)
SameUpToStamp ==
    BothCallsDone =>
        {WithoutStamp(r) : r \in Out2} = {WithoutStamp(r) : r \in out1}

\* C6 as amended: the two calls yield the same set of per-date records up to
\* _extracted_at, which each call reads from the clock; no step of the
\* flattener changes items.
C6_SameRecordsUpToStamp ==
    /\ []SameUpToStamp
    /\ [][items' = items]_vars

\* C6 witness: both calls are done, each yielded the records of two dates,
\* and the clock moved between the calls
C6_Witness ==
    /\ BothCallsDone
    /\ Cardinality(out1) = 2
    /\ Out2 # out1

\* C7: after every completed run, each of the four relations of the
\* destination holds exactly the rows of the most recent completed run.
C7_TablesHoldLastRun ==
    n_runs > 0 => \A r \in Resources : tables[r] = last_run[r]

\* C7 witness: two runs completed; every relation holds rows, all of them
\* stamped by the second run
C7_Witness ==
    /\ n_runs = 2
    /\ now = 2
    /\ \A r \in Resources :
         /\ tables[r] # {}
         /\ \A row \in tables[r] : row["_extracted_at"] = IsoNow(2)

----------------------------------------------------------------------------
(* Properties of the identity columns *)

\* The record being built for post has the identity it was created with
PostIdentityKept ==
    (FanOut /\ fpc \in {"fetch", "apply", "yield"}) =>
        /\ base_record["post_id"] = post.id
        /\ \E t \in 0..MaxNow : base_record["date"] = PostDate(post, t)
        /\ \E t \in 0..MaxNow : base_record["_extracted_at"] = IsoNow(t)

\* The record of every date has the identity it was created with
DailyIdentityKept ==
    Daily =>
        \A d \in DOMAIN metrics_by_date :
            /\ metrics_by_date[d]["page_id"] = PageId
            /\ metrics_by_date[d]["date"] = d
            /\ \E t \in 0..MaxNow :
                  metrics_by_date[d]["_extracted_at"] = IsoNow(t)

\* C11: in every record of daily_page_metrics_total and of
\* lifetime_post_metrics_total the identity columns hold the values given
\* when the record was created (page_id, the grouping date and the stamp for
\* a daily record; the id of the post, the date of created_time and the
\* stamp for a lifetime record): no metric name or value of a response
\* changes them.
C11_IdentityColumnsKept ==
    PostIdentityKept /\ DailyIdentityKept

----------------------------------------------------------------------------
(* Properties of the grouping of flatten_daily_metrics_inner, stated on the
   items given to a call *)

\* The value-points of items that count: <<i, j>> is entry j of object i,
\* the object has period "day" and the end_time of the entry parses
DayPoints ==
    {p \in (1..Len(items)) \X (1..MaxReplayValues) :
        /\ p[2] <= Len(items[p[1]].values)
        /\ items[p[1]].period = "day"
        /\ IsoDate(items[p[1]].values[p[2]].end_time) # ValueError}

PointDate(p) == IsoDate(items[p[1]].values[p[2]].end_time)
PointName(p) == items[p[1]].name
PointValue(p) == items[p[1]].values[p[2]].value

\* The calendar dates of the value-points that count
InputDates == {PointDate(p) : p \in DayPoints}

\* The value-points that count for date d and metric name n
PointsOf(d, n) == {p \in DayPoints : PointDate(p) = d /\ PointName(p) = n}

\* A call on items has yielded all its records
CallDone == pass > 0 /\ dpc = "done"

\* C12: the flattener yields exactly one record per distinct calendar date
\* among the value-points of the period "day" objects whose end_time parses:
\* as many records as dates, one grouped under each date and none under any
\* other; the record of a date has a column for every metric name seen for
\* that date, holding a value given for that name and date, and every other
\* metric column of it is a null column of missing_metrics.
C12_OneRecordPerDate ==
    CallDone =>
        /\ emit_idx = Cardinality(InputDates)
        /\ Len(date_order) = Cardinality(InputDates)
        /\ {date_order[i] : i \in 1..Len(date_order)} = InputDates
        /\ DOMAIN metrics_by_date = InputDates
        /\ \A d \in InputDates :
             \A n \in DOMAIN metrics_by_date[d] \cup ReplayMetricNames :
                IF PointsOf(d, n) # {}
                THEN /\ n \in DOMAIN metrics_by_date[d]
                     /\ \E p \in PointsOf(d, n) :
                           metrics_by_date[d][n] = PointValue(p)
                ELSE /\ n \in DOMAIN metrics_by_date[d]
                        => \/ n \in DailyIdentityKeys
                           \/ (n \in DailyMetricsCatalog
                                 /\ metrics_by_date[d][n] = Null)
                     /\ n \notin DailyIdentityKeys \cup DailyMetricsCatalog
                        => n \notin DOMAIN metrics_by_date[d]

\* C12 witness: two objects of different names each gave a value for the
\* same date, and the call yielded one record, which carries both columns
C12_Witness ==
    /\ CallDone
    /\ Len(items) = 2
    /\ items[1].name = "page_fans"
    /\ items[2].name = "page_video_views_paid"
    /\ Cardinality(DayPoints) = 2
    /\ Cardinality(InputDates) = 1
    /\ emit_idx = 1
    /\ \A d \in InputDates :
         /\ metrics_by_date[d]["page_fans"] = items[1].values[1].value
         /\ metrics_by_date[d]["page_video_views_paid"]
                = items[2].values[1].value

----------------------------------------------------------------------------
(* Properties of the requests of post_metrics_resource *)

\* The requests issued so far: one listing request once the generator has
\* started, and one insights request for each post whose call was reached
RequestCount ==
    FanOut =>
        /\ n_list_req = (IF fpc = "start" THEN 0 ELSE 1)
        /\ list_ok # "ok" => n_metric_req = 0
        /\ fpc = "fetch" => n_metric_req = post_idx - 1
        /\ fpc \in {"apply", "yield", "loop", "done"} => n_metric_req = post_idx
        /\ fpc = "done" => n_list_req + n_metric_req = n_posts + 1

\* An insights request is issued for the post the loop is at, after the
\* listing has answered and after the record of every post before it has
\* been yielded
RequestInTurn ==
    (FanOut /\ n_metric_req' # n_metric_req) =>
        /\ n_metric_req' = n_metric_req + 1
        /\ n_metric_req' = post_idx
        /\ list_ok = "ok"
        /\ n_list_req = 1
        /\ yielded = post_idx - 1
        /\ n_list_req' = n_list_req

\* C13: the fan-out issues exactly one listing request and then exactly one
\* insights request per listed post, one after the other in listing order
\* (N + 1 requests for N posts): the request of a post is issued only after
\* the record of the post before it has been yielded, and a step issues at
\* most one request.
C13_SequentialRequests ==
    /\ []RequestCount
    /\ [][RequestInTurn]_vars
    /\ [][FanOut => (n_list_req' - n_list_req) + (n_metric_req' - n_metric_req)
                       \in {0, 1}]_vars

\* C13 witness: a listing of two posts is exhausted after three requests,
\* the call of one of the posts having failed
C13_Witness ==
    /\ FanOut
    /\ fpc = "done"
    /\ n_posts = 2
    /\ n_list_req = 1
    /\ n_metric_req = 2
    /\ n_failed = 1
    /\ yielded = 2

----------------------------------------------------------------------------
(* Properties of the period filter of flatten_daily_metrics_inner *)

\* The flattener is in the loop over the values of metric_response
InValues == Daily /\ dpc = "values"

\* A pass of the loop over values has written into metrics_by_date
Contributes == InValues /\ metrics_by_date' # metrics_by_date

\* C14 as stated: the flattener retains only the objects whose period field
\* equals "day": the values of an object whose period is anything else, or
\* absent, are not visited and it writes no column and no date record.
C14_OnlyPeriodDay ==
    /\ [](InValues => metric_response.period = "day")
    /\ [][Contributes => metric_response.period = "day"]_vars

\* C14 as amended: the flattener retains only the objects whose period field
\* equals "day" or is absent, an absent period being read as "day": the
\* values of an object with any other period are not visited, the loop goes
\* on to the next object, and it writes no column and no date record.
C14_OnlyPeriodDayOrAbsent ==
    /\ [](InValues => metric_response.period \in {"day", Null})
    /\ [][Contributes => metric_response.period \in {"day", Null}]_vars
    /\ [][(Daily /\ items_taken' = items_taken + 1
               /\ metric_response'.period \notin {"day", Null})
            => /\ dpc' = "items"
               /\ values_left' = 0
               /\ metrics_by_date' = metrics_by_date
               /\ date_order' = date_order]_vars

\* C14 witness: after an object contributed a date, an object of period
\* "week" was taken and the loop is back at the objects, nothing of it
\* visited
C14_Witness ==
    /\ Daily
    /\ dpc = "items"
    /\ items_taken = 2
    /\ metric_response.period = "week"
    /\ values_left = 0
    /\ Len(date_order) >= 1

----------------------------------------------------------------------------
(* Properties of the update of base_record *)

\* One pass of the loop over the metric objects of a response has just run
MetricStep == FanOut /\ fpc = "apply" /\ metrics_left' = metrics_left - 1

\* C15: for each metric object of a successful insights response only the
\* value of its first value-point is used, and it is written into the
\* record only when the name of the metric is one of the metric columns of
\* the catalog the record was created with; any other metric object writes
\* nothing and adds no column, so the columns of the record stay those it
\* was created with.
C15_FirstValueOfCatalogMetric ==
    [][MetricStep =>
          /\ DOMAIN base_record' = PostIdentityKeys \cup PostMetricsCatalog
          /\ IF Len(metric'.values) > 0 /\ metric'.name \in PostMetricsCatalog
             THEN base_record' =
                      [base_record EXCEPT ![metric'.name] =
                                              metric'.values[1].value]
             ELSE base_record' = base_record]_vars

----------------------------------------------------------------------------
(* Properties of repeated metrics in flatten_daily_metrics_inner *)

\* The value-point of S that the loops reach last: the last entry of the
\* last object
LastPoint(S) ==
    CHOOSE p \in S :
        \A q \in S : q[1] < p[1] \/ (q[1] = p[1] /\ q[2] <= p[2])

\* C16: when a metric name occurs more than once for the same date, in one
\* object or across objects, the record yielded for that date holds the
\* value of the occurrence that comes last in the order of the input.
C16_LastWriteWins ==
    CallDone =>
        \A d \in InputDates, n \in ReplayMetricNames :
            PointsOf(d, n) # {} =>
                metrics_by_date[d][n] = PointValue(LastPoint(PointsOf(d, n)))

\* C16 witness: a call is done on items that gave one metric two different
\* values for one date, and the record of the date holds the later one
C16_Witness ==
    /\ CallDone
    /\ \E d \in InputDates, n \in ReplayMetricNames :
         /\ Cardinality(PointsOf(d, n)) = 2
         /\ \E p, q \in PointsOf(d, n) : PointValue(p) # PointValue(q)
         /\ metrics_by_date[d][n] = PointValue(LastPoint(PointsOf(d, n)))

----------------------------------------------------------------------------
(* Properties of the date of a post *)

\* The loop of the fan-out has just taken a post and created its record
PostStep == FanOut /\ post_idx' = post_idx + 1

\* created_time is there and is a timestamp
Parses(created_time) ==
    created_time # Null /\ IsoDate(created_time) # ValueError

\* The record created for a post is dated by created_time when it parses
\* and by the clock, as read during the step, when it is missing or does
\* not parse; the step ends at the request of the post
DateDerived ==
    PostStep =>
        /\ fpc' = "fetch"
        /\ IF Parses(post'.created_time)
           THEN base_record'["date"] = IsoDate(post'.created_time)
           ELSE \E t \in now..now' : base_record'["date"] = Today(t)

\* The generator raises only when the listing failed, and every post taken
\* has its record yielded by the time the loop takes the next one
NoPostLost ==
    FanOut =>
        /\ fpc = "raised" => (list_ok = "failed" /\ post_idx = 0)
        /\ fpc \in {"loop", "done"} => yielded = post_idx

\* C17: for each listed post the date of the record is the calendar date of
\* created_time when it parses and the current date when created_time is
\* missing or does not parse; a missing or unparseable created_time raises
\* nothing and the record of the post is yielded all the same.
C17_DateFallsBackToToday ==
    /\ [][DateDerived]_vars
    /\ []NoPostLost

\* C17 witness: a second post whose created_time does not parse has had its
\* record yielded, dated by the clock
C17_Witness ==
    /\ FanOut
    /\ fpc = "loop"
    /\ post_idx = 2
    /\ yielded = 2
    /\ post.created_time = "not-a-date"
    /\ \E t \in 0..MaxNow : base_record["date"] = Today(t)

====
